---- MODULE Spec2Model ----
(***************************************************************************)
(* Verification model of the trainer helpers and Dreamer losses of torchrl *)
(*   torchrl/trainers/helpers/envs.py                                      *)
(*   torchrl/trainers/helpers/replay_buffer.py                             *)
(*   torchrl/objectives/costs/dreamer.py                                   *)
(* Every helper is a function of its arguments: each specification draws   *)
(* the arguments in its initial states and its actions run the helper.     *)
(***************************************************************************)
EXTENDS Integers, Sequences, FiniteSets, TLC

VARIABLES
    pc,         \* position of the driver: which helper ran last
    heap,       \* the Namespace objects: object id -> attributes
    args0,      \* attributes of the args Namespace when it was passed in
    ret,        \* object id returned by correct_for_frame_skip (0: nothing yet)
    call,       \* arguments of transformed_env_constructor / parallel_env_constructor
    creator,    \* the env maker returned by transformed_env_constructor
    made,       \* what executing the env maker did (exception or environment)
    par,        \* what parallel_env_constructor returned
    rbIn,       \* arguments of make_replay_buffer
    rbOut,      \* the buffer make_replay_buffer returned
    klIn,       \* input of DreamerModelLoss.kl_loss
    klOut,      \* results of kl_loss, one per value of inversed_free_nats
    dreamer,    \* one Dreamer training step: inputs, tensordict, actor and value losses
    decode,     \* a DreamerEnv and what its decode_obs calls did
    seeding,    \* pairs of mock envs given the same seed and the same operations
    serial,     \* a MockSerialEnv and the tensordict it returned last
    vecenv,     \* a Discrete/ContinuousActionVecMockEnv and the current tensordict
    stats       \* arguments and outcome of get_stats_random_rollout

vars == <<pc, heap, args0, ret, call, creator, made, par, rbIn, rbOut, klIn, klOut,
          dreamer, decode, seeding, serial, vecenv, stats>>

None == [kind |-> "None"]

\* the variables of the trainer helpers and of kl_loss
helperVars == <<heap, args0, ret, call, creator, made, par, rbIn, rbOut, klIn, klOut>>

\* the variables of the Dreamer step, the Dreamer env, the mock envs and the stats
otherVars == <<dreamer, decode, seeding, serial, vecenv, stats>>

HelpersIdle ==
    /\ heap = None /\ args0 = None /\ ret = 0
    /\ call = None /\ creator = None /\ made = None /\ par = None
    /\ rbIn = None /\ rbOut = None /\ klIn = None /\ klOut = None

OthersIdle ==
    /\ dreamer = None /\ decode = None /\ seeding = None
    /\ serial = None /\ vecenv = None /\ stats = None

(***************************************************************************)
(* Bounds of the model                                                     *)
(***************************************************************************)
MaxFrames == 9         \* frame counts start from 0..MaxFrames
MaxFrameSkip == 4      \* frame_skip ranges over 1..MaxFrameSkip
MaxNoops == 2          \* args.noops is 0 or MaxNoops
MaxCatFrames == 2      \* args.catframes is absent, 0 or MaxCatFrames
MaxWorkers == 3        \* args.env_per_collector ranges over 1..MaxWorkers
MaxBufferSize == 8     \* cfg.buffer_size ranges over 1..MaxBufferSize
MaxBatch == 2          \* kl_loss sees 1..MaxBatch samples
StateDim == 2          \* size of the last dimension of the KL tensor
MaxKl == 2             \* every element of the KL tensor is in 0..MaxKl
MaxFreeNats == 3       \* free_nats ranges over 0..MaxFreeNats
MaxHorizon == 3        \* an imagined rollout has 2..MaxHorizon time steps
MaxImagBatch == 2      \* an imagined rollout has 1..MaxImagBatch batch elements
MaxReward == 1         \* imagined rewards start from 0..MaxReward
MaxValue == 1          \* predicted values start from 0..MaxValue
GammaDen == 2          \* gamma and lmbda range over 0/GammaDen .. GammaDen/GammaDen
MaxLatent == 3         \* latent states range over 0..MaxLatent
MaxDecodeCalls == 4    \* decode_obs is called at most MaxDecodeCalls times
MaxSerialSeed == 18    \* a rollout of MockSerialEnv is seeded with 0, 1 or MaxSerialSeed
MaxSerialCounter == 206 \* MockSerialEnv is stepped while its counter is below this
MaxSeed == 35          \* the mock environments are seeded with 0..MaxSeed
MaxSeedOps == 4        \* two instances are run in step for MaxSeedOps operations
MaxVecSeed == 1        \* a vector env is built with seed 0..MaxVecSeed
MaxVecCounter == 2     \* a vector env is reset while its counter is below this
MaxVecSteps == 2       \* a vector env is stepped up to MaxVecSteps times between resets
MaxOff == 2            \* a step sees observations 0..MaxOff units below counter + 1
MaxInitSteps == 3      \* args.init_env_steps ranges over 0..MaxInitSteps
MaxEpisode == 2        \* a rollout of the proof environment ends after 1..MaxEpisode steps
MaxLoopSeed == 1       \* the env of the closed loop is built with seed 0..MaxLoopSeed
MaxLoopCounter == 3    \* the env of the closed loop is reset while its counter is below this
MaxLoopSteps == 720    \* the closed loop runs up to MaxLoopSteps steps after a reset

(***************************************************************************)
(* correct_for_frame_skip (envs.py 46-77)                                  *)
(***************************************************************************)

\* `fields` with total_frames forgotten
fieldsNoTotalFrames ==
    << "max_frames_per_traj", "frames_per_batch", "record_frames",
       "annealing_frames", "init_random_frames", "init_env_steps", "noops" >>

\* the list `fields` of correct_for_frame_skip, in loop order
fields ==
    << "max_frames_per_traj", "total_frames", "frames_per_batch", "record_frames",
       "annealing_frames", "init_random_frames", "init_env_steps", "noops" >>

\* the seven arguments the docstring of correct_for_frame_skip names
DocFields ==
    { "max_frames_per_traj", "total_frames", "frames_per_batch", "record_frames",
      "annealing_frames", "init_random_frames", "init_env_steps" }

\* attributes a Namespace of the model may hold
Attrs == DocFields \cup {"noops", "frame_skip", "catframes"}

Absent == [has |-> FALSE, val |-> 0]
Attr(v) == [has |-> TRUE, val |-> v]

\* a quotient rounded up instead of down
CeilDiv(a, b) == -((-a) \div b)

\* Python's a // b on integers: the floor of the quotient
FloorDiv(a, b) == a \div b

\* hasattr(ns, f)
hasattr(ns, f) == ns[f].has

\* the body of the loop with the hasattr test dropped
SetFieldAlways(ns, f) ==
    [ns EXCEPT ![f] = Attr(FloorDiv(ns[f].val, ns["frame_skip"].val))]

\* one iteration of `for field in fields` (envs.py 74-76)
CorrectField(ns, f) ==
    IF hasattr(ns, f)
    THEN [ns EXCEPT ![f] = Attr(FloorDiv(ns[f].val, ns["frame_skip"].val))]
    ELSE ns

RECURSIVE CorrectFields(_, _)
CorrectFields(ns, fs) ==
    IF fs = << >> THEN ns
    ELSE CorrectFields(CorrectField(ns, Head(fs)), Tail(fs))

\* the attributes of args when correct_for_frame_skip returns
correct_for_frame_skip(ns) ==
    IF ns["frame_skip"].val # 1 THEN CorrectFields(ns, fields) ELSE ns

\* the frame counts of the model start from distinct values: base + AttrOffset
AttrOrder ==
    << "total_frames", "noops", "max_frames_per_traj", "frames_per_batch",
       "record_frames", "annealing_frames", "init_random_frames", "init_env_steps" >>

AttrOffset(f) == (CHOOSE i \in 1..Len(AttrOrder) : AttrOrder[i] = f) - 1

\* the Namespaces correct_for_frame_skip is run on: frame_skip is a positive
\* repeat count, any subset of the frame counts is present, catframes is an
\* attribute that counts no frames
FrameSkipInputs ==
    { [a \in Attrs |->
          IF a = "frame_skip" THEN Attr(fs)
          ELSE IF a = "catframes" THEN (IF cf THEN Attr(MaxFrames) ELSE Absent)
          ELSE IF a \in present THEN Attr(base + AttrOffset(a))
          ELSE Absent] :
      fs \in 1..MaxFrameSkip, cf \in BOOLEAN,
      base \in 0..MaxFrames, present \in SUBSET (DocFields \cup {"noops"}) }

ArgsId == 1

InitFrameSkip ==
    /\ pc = "start"
    /\ OthersIdle
    /\ \E ns \in FrameSkipInputs : heap = [i \in {ArgsId} |-> ns] /\ args0 = ns
    /\ ret = 0
    /\ call = None /\ creator = None /\ made = None /\ par = None
    /\ rbIn = None /\ rbOut = None /\ klIn = None /\ klOut = None

\* args = correct_for_frame_skip(args): the object is modified in place and returned
CorrectForFrameSkip ==
    /\ pc = "start"
    /\ heap' = [heap EXCEPT ![ArgsId] = correct_for_frame_skip(heap[ArgsId])]
    /\ ret' = ArgsId
    /\ pc' = "corrected"
    /\ UNCHANGED <<args0, call, creator, made, par, rbIn, rbOut, klIn, klOut>>
    /\ UNCHANGED otherVars

NextFrameSkip == CorrectForFrameSkip

SpecFrameSkip == InitFrameSkip /\ [][NextFrameSkip]_vars

FrameSkipOf(ns) == ns["frame_skip"].val

\* C1: after correct_for_frame_skip, when frame_skip # 1 every one of the seven
\* documented frame counts that exists on args holds its former value floor-divided
\* by frame_skip; when frame_skip = 1 no attribute has changed; the returned
\* object is the Namespace that was passed in.
C1_FrameCountsDivided ==
    pc = "corrected" =>
        /\ ret = ArgsId
        /\ FrameSkipOf(args0) # 1 =>
              \A f \in DocFields :
                  args0[f].has =>
                      /\ heap[ret][f].has
                      /\ heap[ret][f].val = args0[f].val \div FrameSkipOf(args0)
        /\ FrameSkipOf(args0) = 1 => heap[ret] = args0

C1_Witness ==
    /\ pc = "corrected"
    /\ FrameSkipOf(args0) = 3
    /\ \A f \in DocFields : args0[f].has /\ heap[ret][f].val < args0[f].val

\* C2: for frame_skip >= 1 and a non-negative frame count v, the corrected
\* value w satisfies w * frame_skip <= v and v - w * frame_skip < frame_skip.
C2_NoOverSampling ==
    pc = "corrected" =>
        \A f \in DocFields :
            (args0[f].has /\ FrameSkipOf(args0) >= 1 /\ args0[f].val >= 0) =>
                LET v == args0[f].val
                    w == heap[ret][f].val
                    k == FrameSkipOf(args0)
                IN  /\ w * k <= v
                    /\ v - w * k < k

C2_Witness ==
    /\ pc = "corrected"
    /\ FrameSkipOf(args0) = 3
    /\ args0["total_frames"] = Attr(8)
    /\ heap[ret]["total_frames"] = Attr(2)

\* C3 as stated: only the seven documented frame counts are modified, every
\* other attribute keeps its value and no absent attribute is created.
C3_OnlySevenModified ==
    pc = "corrected" =>
        /\ \A a \in Attrs \ DocFields : heap[ret][a] = args0[a]
        /\ \A a \in Attrs : heap[ret][a].has = args0[a].has

\* C3 amended: only the seven documented frame counts and noops are modified,
\* every other attribute (frame_skip included) keeps its value and no absent
\* attribute is created.
C3_OnlyFieldsModified ==
    pc = "corrected" =>
        /\ \A a \in Attrs \ (DocFields \cup {"noops"}) : heap[ret][a] = args0[a]
        /\ \A a \in Attrs : heap[ret][a].has = args0[a].has

C3_Witness ==
    /\ pc = "corrected"
    /\ FrameSkipOf(args0) = 2
    /\ args0["noops"].has /\ heap[ret]["noops"] # args0["noops"]
    /\ args0["catframes"].has /\ heap[ret]["catframes"] = args0["catframes"]
    /\ ~args0["record_frames"].has /\ ~heap[ret]["record_frames"].has
    /\ heap[ret]["total_frames"] # args0["total_frames"]

(***************************************************************************)
(* transformed_env_constructor and parallel_env_constructor                *)
(* (envs.py 39-43, 80-244)                                                 *)
(***************************************************************************)

\* LIBS: the env-library constructors by name
LIBS == [l \in {"gym", "retro", "dm_control"} |->
            CASE l = "gym" -> "GymEnv"
              [] l = "retro" -> "RetroEnv"
              [] l = "dm_control" -> "DMControlEnv"]

\* an exception leaving the env maker, after the given number of constructor calls
Raise(e, custom_calls, lib_calls) ==
    [kind |-> "raise", exc |-> e, custom_calls |-> custom_calls, lib_calls |-> lib_calls]

\* an environment returned by the env maker
Env(base, transforms) ==
    [ kind |-> "env", base |-> base, transforms |-> transforms,
      custom_calls |-> base.custom_calls, lib_calls |-> base.lib_calls ]

\* `hasattr(args, name) and args.name` with the attribute never looked at
NeverTruthy(at) == FALSE

\* `hasattr(args, name) and args.name` for an integer or boolean attribute
Truthy(at) == at.has /\ at.val # 0

\* the base env built from custom_env_maker even when none was passed
BaseEnvIgnoringCustom(a, k, env_library) ==
    [ maker |-> env_library,
      envname |-> a.env_name,
      frame_skip |-> a.frame_skip,
      from_pixels |-> a.from_pixels \/ Len(k.video_tag) # 0,
      pixels_only |-> a.from_pixels,
      taskname |-> IF env_library = "DMControlEnv" THEN Attr(a.env_task) ELSE Absent,
      custom_calls |-> 0,
      lib_calls |-> 1 ]

\* envs.py 120-132: the base env, with the number of calls made to obtain it
BaseEnv(a, k, env_library) ==
    IF k.custom_env_maker = None
    THEN [ maker |-> env_library,
           envname |-> a.env_name,
           frame_skip |-> a.frame_skip,
           from_pixels |-> a.from_pixels \/ Len(k.video_tag) # 0,
           pixels_only |-> a.from_pixels,
           taskname |-> IF env_library = "DMControlEnv" THEN Attr(a.env_task) ELSE Absent,
           custom_calls |-> 0,
           lib_calls |-> 1 ]
    ELSE [ maker |-> "custom_env_maker",
           envname |-> "",
           frame_skip |-> 1,
           from_pixels |-> a.from_pixels,
           pixels_only |-> a.from_pixels,
           taskname |-> Absent,
           custom_calls |-> 1,
           lib_calls |-> 0 ]

\* env.observation_spec.keys() of the base env
ObservationKeys(base) ==
    IF base.from_pixels
    THEN (IF base.pixels_only THEN <<"next_pixels">>
          ELSE <<"next_pixels", "next_observation">>)
    ELSE <<"next_observation">>

\* `"pixels" not in key`
NotPixels(key) == key # "next_pixels"

\* VecNorm normalising the reward whatever the flags say
VecNormKeysWithReward(out_key, norm_obs_only_) == <<out_key, "reward">>

\* envs.py 189: keys of the VecNorm transform
VecNormKeys(out_key, norm_obs_only_) ==
    IF ~norm_obs_only_ THEN <<out_key, "reward">> ELSE <<out_key>>

OutKey == "next_observation_vector"

\* envs.py 136-161: the transforms appended before the observation branch
CommonTransforms(a, k, norm_rewards) ==
    LET video == IF Len(k.video_tag) # 0
                 THEN << [type |-> "VideoRecorder", tag |-> k.video_tag] >>
                 ELSE << >>
        resetNoops == IF a.noops # 0
                      THEN << [type |-> "NoopResetEnv", noops |-> a.noops] >>
                      ELSE << >>
        pixels == IF a.from_pixels
                  THEN << [type |-> "ToTensorImage"],
                          [type |-> "Resize", w |-> 84, h |-> 84],
                          [type |-> "GrayScale"],
                          [type |-> "CatFrames", keys |-> <<"next_pixels">>, N |-> Absent],
                          [type |-> "ObservationNorm", keys |-> <<"next_pixels">>,
                           stats |-> "pixels"] >>
                  ELSE << >>
        overridden == norm_rewards \/ k.norm_obs_only
        reward_scaling == IF overridden THEN Attr(1) ELSE a.reward_scaling
        reward_loc == IF overridden THEN 0 ELSE a.reward_loc
        scaling == IF reward_scaling.has
                   THEN << [type |-> "RewardScaling", loc |-> reward_loc,
                            scale |-> reward_scaling.val] >>
                   ELSE << >>
    IN  video \o resetNoops \o pixels \o scaling

\* envs.py 169-210: the transforms of an env observed through state vectors
VectorTransforms(a, k, base, norm_obs_only_, double_to_float_list) ==
    LET selected_keys == SelectSeq(ObservationKeys(base), NotPixels)
        norm == IF ~a.vecnorm
                THEN [type |-> "ObservationNorm", keys |-> <<OutKey>>, stats |-> k.stats]
                ELSE [type |-> "VecNorm", keys |-> VecNormKeys(OutKey, norm_obs_only_)]
        cat == IF Truthy(a.catframes)
               THEN << [type |-> "CatFrames", keys |-> <<OutKey>>, N |-> a.catframes] >>
               ELSE << >>
        gsde == IF Truthy(a.gSDE)
                THEN << [type |-> "gSDENoise", observation_key |-> OutKey] >>
                ELSE << >>
    IN  << [type |-> "CatTensors", keys |-> selected_keys, out_key |-> OutKey],
           norm,
           [type |-> "DoubleToFloat", keys |-> Append(double_to_float_list, OutKey)] >>
        \o cat \o gsde

\* make_transformed_env (envs.py 108-218): what one execution of the env maker
\* does, for the closure fn = [args, video_tag, stats, norm_obs_only, custom_env_maker]
make_transformed_env(fn) ==
    LET a == fn.args
        k == fn
    IN  IF a.env_library \notin DOMAIN LIBS
        THEN Raise("KeyError", 0, 0)
        ELSE
        LET env_library == LIBS[a.env_library]
            norm_rewards == a.vecnorm /\ a.norm_rewards
            norm_obs_only_ == k.norm_obs_only \/ ~norm_rewards
            base == BaseEnv(a, k, env_library)
            common == CommonTransforms(a, k, norm_rewards)
            double_to_float_list ==
                IF env_library = "DMControlEnv" THEN <<"reward", "action">> ELSE << >>
        IN  IF ~a.from_pixels
            THEN Env(base,
                     common
                     \o VectorTransforms(a, k, base, norm_obs_only_, double_to_float_list)
                     \o << [type |-> "FiniteTensorDictCheck"] >>)
            ELSE IF Truthy(a.gSDE)
            THEN Raise("RuntimeError", base.custom_calls, base.lib_calls)
            ELSE Env(base,
                     common
                     \o << [type |-> "DoubleToFloat", keys |-> double_to_float_list] >>
                     \o << [type |-> "FiniteTensorDictCheck"] >>)

\* transformed_env_constructor (envs.py 80-88, 220-222): the env maker returned
transformed_env_constructor(a, k) ==
    [ kind |-> IF k.use_env_creator THEN "EnvCreator" ELSE "function",
      args |-> a,
      video_tag |-> k.video_tag,
      stats |-> k.stats,
      norm_obs_only |-> k.norm_obs_only,
      custom_env_maker |-> k.custom_env_maker ]

\* parallel_env_constructor always wrapping the maker in a ParallelEnv
parallel_env_constructor_always(a, k) ==
    [ kind |-> "ParallelEnv",
      num_workers |-> a.env_per_collector,
      create_env_fn |->
          transformed_env_constructor(a, [k EXCEPT !.use_env_creator = TRUE]),
      create_env_kwargs |-> None,
      pin_memory |-> a.pin_memory ]

\* parallel_env_constructor (envs.py 225-244)
parallel_env_constructor(a, k) ==
    LET make == transformed_env_constructor(a, [k EXCEPT !.use_env_creator = TRUE])
    IN  IF a.env_per_collector = 1
        THEN make
        ELSE [ kind |-> "ParallelEnv",
               num_workers |-> a.env_per_collector,
               create_env_fn |-> make,
               create_env_kwargs |-> None,
               pin_memory |-> a.pin_memory ]

\* the Namespaces the env constructors are run on
EnvArgs ==
    [ env_library : {"gym", "retro", "dm_control", "mylib"},
      env_name : {"Humanoid-v2"},
      env_task : {"run"},
      frame_skip : {1},
      from_pixels : BOOLEAN,
      vecnorm : BOOLEAN,
      norm_rewards : BOOLEAN,
      reward_scaling : {Absent, Attr(5)},
      reward_loc : {0},
      noops : {0, MaxNoops},
      catframes : {Absent, Attr(0), Attr(MaxCatFrames)},
      gSDE : {Absent, Attr(0), Attr(1)},
      env_per_collector : 1..MaxWorkers,
      pin_memory : BOOLEAN ]

\* the keyword arguments of transformed_env_constructor
EnvKwargs ==
    [ video_tag : {"", "eval"},
      stats : {None, [kind |-> "stats"]},
      norm_obs_only : BOOLEAN,
      use_env_creator : BOOLEAN,
      custom_env_maker : {None, [kind |-> "callable"]} ]

InitEnv ==
    /\ pc = "start"
    /\ OthersIdle
    /\ \E a \in EnvArgs, k \in EnvKwargs : call = [args |-> a, kwargs |-> k]
    /\ creator = None /\ made = None /\ par = None
    /\ heap = None /\ args0 = None /\ ret = 0
    /\ rbIn = None /\ rbOut = None /\ klIn = None /\ klOut = None

\* make_env = transformed_env_constructor(args, **kwargs)
TransformedEnvConstructor ==
    /\ pc = "start"
    /\ creator' = transformed_env_constructor(call.args, call.kwargs)
    /\ pc' = "constructed"
    /\ UNCHANGED <<heap, args0, ret, call, made, par, rbIn, rbOut, klIn, klOut>>
    /\ UNCHANGED otherVars

\* env = make_env(): one execution of the env maker
MakeTransformedEnv ==
    /\ pc = "constructed"
    /\ made' = make_transformed_env(creator)
    /\ pc' = "made"
    /\ UNCHANGED <<heap, args0, ret, call, creator, par, rbIn, rbOut, klIn, klOut>>
    /\ UNCHANGED otherVars

\* env = parallel_env_constructor(args, **kwargs)
ParallelEnvConstructor ==
    /\ pc = "start"
    /\ par' = parallel_env_constructor(call.args, call.kwargs)
    /\ pc' = "parallel"
    /\ UNCHANGED <<heap, args0, ret, call, creator, made, rbIn, rbOut, klIn, klOut>>
    /\ UNCHANGED otherVars

NextEnv == TransformedEnvConstructor \/ MakeTransformedEnv \/ ParallelEnvConstructor

SpecEnv == InitEnv /\ [][NextEnv]_vars

\* the transforms of a given type in a built environment
TransformsOf(env, type) ==
    { env.transforms[i] : i \in { j \in 1..Len(env.transforms) : env.transforms[j].type = type } }

InKeys(key, t) == \E i \in 1..Len(t.keys) : t.keys[i] = key

GsdeWithPixels == call.args.from_pixels /\ call.args.gSDE = Attr(1)

KnownLibrary == call.args.env_library \in {"gym", "retro", "dm_control"}

IsCreatorFromArgs(c) ==
    /\ c.kind = "EnvCreator"
    /\ c.args = call.args
    /\ c.video_tag = call.kwargs.video_tag
    /\ c.stats = call.kwargs.stats
    /\ c.norm_obs_only = call.kwargs.norm_obs_only
    /\ c.custom_env_maker = call.kwargs.custom_env_maker

CustomPassed == call.kwargs.custom_env_maker # None

C8_NoCatFramesWhenZero ==
    (pc = "made" /\ made.kind = "env" /\ call.args.catframes = Attr(0)) =>
        TransformsOf(made, "CatFrames") = {}

(***************************************************************************)
(* make_replay_buffer (replay_buffer.py 22-50)                             *)
(***************************************************************************)

\* torch.device(device): the device type and index a device string names
TorchDevice(d) ==
    CASE d = "cpu" -> [type |-> "cpu", index |-> Absent]
      [] d = "cuda" -> [type |-> "cuda", index |-> Absent]
      [] d = "cuda:0" -> [type |-> "cuda", index |-> Attr(0)]
      [] d = "cuda:1" -> [type |-> "cuda", index |-> Attr(1)]

\* memory pinned on the cpu instead of on the other devices
PinMemoryOnCpu(device) == device = TorchDevice("cpu")

\* replay_buffer.py 29, 43: pin_memory=device != torch.device("cpu")
PinMemory(device) == device # TorchDevice("cpu")

\* replay_buffer.py 31-35, 45-48
LazyMemmapStorage(max_size, scratch_dir) ==
    [cls |-> "LazyMemmapStorage", max_size |-> max_size, scratch_dir |-> scratch_dir]

\* make_replay_buffer; scratch_dir is os.environ.get("SCRATCH_DIR", None),
\* alpha and beta are kept in tenths
make_replay_buffer(device, cfg, scratch_dir) ==
    LET dev == TorchDevice(device)
    IN  IF ~cfg.prb
        THEN [ cls |-> "TensorDictReplayBuffer",
               size |-> cfg.buffer_size,
               alpha_tenths |-> Absent, beta_tenths |-> Absent,
               pin_memory |-> PinMemory(dev),
               prefetch |-> 3,
               storage |-> LazyMemmapStorage(cfg.buffer_size, scratch_dir) ]
        ELSE [ cls |-> "TensorDictPrioritizedReplayBuffer",
               size |-> cfg.buffer_size,
               alpha_tenths |-> Attr(7), beta_tenths |-> Attr(5),
               pin_memory |-> PinMemory(dev),
               prefetch |-> 3,
               storage |-> LazyMemmapStorage(cfg.buffer_size, scratch_dir) ]

\* ReplayArgsConfig (replay_buffer.py 53-58)
ReplayArgsConfig == [buffer_size : 1..MaxBufferSize, prb : BOOLEAN]

Devices == {"cpu", "cuda", "cuda:0", "cuda:1"}

InitReplay ==
    /\ pc = "start"
    /\ OthersIdle
    /\ \E d \in Devices, cfg \in ReplayArgsConfig,
          sd \in {None, [kind |-> "path"]} :
          rbIn = [device |-> d, cfg |-> cfg, scratch_dir |-> sd]
    /\ rbOut = None
    /\ heap = None /\ args0 = None /\ ret = 0
    /\ call = None /\ creator = None /\ made = None /\ par = None
    /\ klIn = None /\ klOut = None

\* buffer = make_replay_buffer(device, cfg)
MakeReplayBuffer ==
    /\ pc = "start"
    /\ rbOut' = make_replay_buffer(rbIn.device, rbIn.cfg, rbIn.scratch_dir)
    /\ pc' = "buffer"
    /\ UNCHANGED <<heap, args0, ret, call, creator, made, par, rbIn, klIn, klOut>>
    /\ UNCHANGED otherVars

NextReplay == MakeReplayBuffer

SpecReplay == InitReplay /\ [][NextReplay]_vars

\* C9: make_replay_buffer returns a TensorDictPrioritizedReplayBuffer with alpha
\* 0.7 and beta 0.5 when cfg.prb is true and a plain TensorDictReplayBuffer
\* otherwise; the buffer size and the capacity of its LazyMemmapStorage equal
\* cfg.buffer_size, prefetch is 3, and pin_memory is true exactly when the
\* device is not the cpu.
C9_ReplayBufferAsConfigured ==
    pc = "buffer" =>
        /\ rbIn.cfg.prb =>
              /\ rbOut.cls = "TensorDictPrioritizedReplayBuffer"
              /\ rbOut.alpha_tenths = Attr(7)
              /\ rbOut.beta_tenths = Attr(5)
        /\ ~rbIn.cfg.prb =>
              /\ rbOut.cls = "TensorDictReplayBuffer"
              /\ ~rbOut.alpha_tenths.has /\ ~rbOut.beta_tenths.has
        /\ rbOut.size = rbIn.cfg.buffer_size
        /\ rbOut.storage.cls = "LazyMemmapStorage"
        /\ rbOut.storage.max_size = rbIn.cfg.buffer_size
        /\ rbOut.prefetch = 3
        /\ rbOut.pin_memory <=> rbIn.device # "cpu"

C9_Witness ==
    /\ pc = "buffer"
    /\ rbIn.cfg.prb /\ rbIn.device = "cuda:0" /\ rbIn.cfg.buffer_size = MaxBufferSize
    /\ rbOut.cls = "TensorDictPrioritizedReplayBuffer" /\ rbOut.pin_memory

(***************************************************************************)
(* DreamerModelLoss.kl_loss (dreamer.py 112-123)                           *)
(* The input of the model is the tensor kl of lines 113-118, one row of    *)
(* StateDim non-negative integers per sample; a mean is kept as the exact  *)
(* fraction num / den.                                                     *)
(***************************************************************************)

RECURSIVE SumSeq(_)
SumSeq(q) == IF q = << >> THEN 0 ELSE Head(q) + SumSeq(Tail(q))

\* kl.sum(-1): one sum per sample
SumLast(kl) == [i \in 1..Len(kl) |-> SumSeq(kl[i])]

\* .mean() of a vector of integers
Mean(v) == [kind |-> "value", num |-> SumSeq(v), den |-> Len(v)]

\* a clamp from above instead of from below
ClampMax(x, lo) == IF x > lo THEN lo ELSE x

\* .clamp_min(lo) on one integer
ClampMin(x, lo) == IF x < lo THEN lo ELSE x

\* .clamp_min(lo) on every element of a vector
ClampMinEach(v, lo) == [i \in 1..Len(v) |-> ClampMin(v[i], lo)]

\* .clamp_min(lo) on the scalar num / den
ClampMinScalar(m, lo) == [m EXCEPT !.num = ClampMin(m.num, lo * m.den)]

\* dreamer.py 119-123
kl_loss(kl, free_nats, inversed_free_nats) ==
    IF inversed_free_nats
    THEN ClampMinScalar(Mean(SumLast(kl)), free_nats)
    ELSE Mean(ClampMinEach(SumLast(kl), free_nats))

\* the KL tensors of the model
KlTensors ==
    UNION { [1..b -> [1..StateDim -> 0..MaxKl]] : b \in 1..MaxBatch }

InitKl ==
    /\ pc = "start"
    /\ OthersIdle
    /\ \E kl \in KlTensors, f \in 0..MaxFreeNats : klIn = [kl |-> kl, free_nats |-> f]
    /\ klOut = [inv \in BOOLEAN |-> None]
    /\ heap = None /\ args0 = None /\ ret = 0
    /\ call = None /\ creator = None /\ made = None /\ par = None
    /\ rbIn = None /\ rbOut = None

\* the loss module built with inversed_free_nats = inv computes kl_loss on the input
KlLoss(inv) ==
    /\ klOut[inv] = None
    /\ klOut' = [klOut EXCEPT ![inv] = kl_loss(klIn.kl, klIn.free_nats, inv)]
    /\ pc' = "kl"
    /\ UNCHANGED <<heap, args0, ret, call, creator, made, par, rbIn, rbOut, klIn>>
    /\ UNCHANGED otherVars

NextKl == \E inv \in BOOLEAN : KlLoss(inv)

SpecKl == InitKl /\ [][NextKl]_vars

Larger(x, y) == IF x >= y THEN x ELSE y

\* the sum of all elements of the KL tensor
KlTotal == SumSeq([i \in 1..Len(klIn.kl) |-> SumSeq(klIn.kl[i])])

\* the per-sample sums, each raised to free_nats, added up
RECURSIVE KlClampedTotal(_)
KlClampedTotal(n) ==
    IF n = 0 THEN 0
    ELSE KlClampedTotal(n - 1) + Larger(klIn.kl[n][1] + SumSeq(Tail(klIn.kl[n])), klIn.free_nats)

\* C10: with inversed_free_nats the result is the average of the per-sample KL
\* sums clamped below at free_nats; without it, the average of the per-sample
\* sums each clamped below at free_nats. Both results are >= free_nats and the
\* non-inversed result is >= the inversed one on the same input.
C10_FreeNats ==
    LET n == Len(klIn.kl)
        f == klIn.free_nats
        inv == klOut[TRUE]
        non == klOut[FALSE]
    IN  pc = "kl" =>
            /\ inv # None =>
                  /\ inv.den = n
                  /\ inv.num = Larger(KlTotal, f * n)
                  /\ inv.num >= f * inv.den
            /\ non # None =>
                  /\ non.den = n
                  /\ non.num = KlClampedTotal(n)
                  /\ non.num >= f * non.den
            /\ (inv # None /\ non # None) => non.num * inv.den >= inv.num * non.den

\* a batch with one sample under and one over free_nats, where the two modes differ
C10_Witness ==
    /\ pc = "kl"
    /\ klOut[TRUE] # None /\ klOut[FALSE] # None
    /\ Len(klIn.kl) = 2
    /\ SumSeq(klIn.kl[1]) < klIn.free_nats /\ SumSeq(klIn.kl[2]) > klIn.free_nats
    /\ klOut[FALSE].num * klOut[TRUE].den > klOut[TRUE].num * klOut[FALSE].den

(***************************************************************************)
(* DreamerActorLoss and DreamerValueLoss (dreamer.py 126-284)              *)
(* Tensors hold exact fractions [num, den] in lowest terms; the model      *)
(* starts from the imagined rollout (rewards) and the values the value     *)
(* model predicts on it, a [batch][time] matrix each.                      *)
(***************************************************************************)

RECURSIVE Gcd(_, _)
Gcd(a, b) == IF b = 0 THEN a ELSE Gcd(b, a % b)

Abs(x) == IF x < 0 THEN -x ELSE x

\* the fraction n / d (d > 0) in lowest terms
Frac(n, d) ==
    LET g == Gcd(Abs(n), d)
    IN  [num |-> n \div g, den |-> d \div g]

RInt(n) == [num |-> n, den |-> 1]
RNeg(x) == [num |-> -x.num, den |-> x.den]
\* the sum, over the least common denominator
RAdd(x, y) ==
    LET g == Gcd(x.den, y.den)
    IN  Frac(x.num * (y.den \div g) + y.num * (x.den \div g), (x.den \div g) * y.den)
RSub(x, y) == RAdd(x, RNeg(y))
RMul(x, y) == Frac(x.num * y.num, x.den * y.den)
RDivInt(x, n) == Frac(x.num, x.den * n)

RECURSIVE RSum(_)
RSum(q) == IF q = << >> THEN RInt(0) ELSE RAdd(Head(q), RSum(Tail(q)))

\* x[:, :-1] on one batch row
DropLast(row) == SubSeq(row, 1, Len(row) - 1)

\* x[:, 1:] on one batch row
DropFirst(row) == SubSeq(row, 2, Len(row))

\* a tensordict left at its full length
KeepAll(row) == row

\* tensordict[:, :-1] (dreamer.py 192) on one batch row of one entry
TdDropLast(row) == DropLast(row)

\* vec_td_lambda_return_estimate on one batch row, with no step done:
\*   G[n] = r[n] + gamma * V[n]
\*   G[t] = r[t] + gamma * ((1 - lmbda) * V[t] + lmbda * G[t+1])
\* where V is the value of the next state
RECURSIVE TdLambdaFrom(_, _, _, _, _)
TdLambdaFrom(t, gamma, lmbda, next_value, reward) ==
    IF t = Len(reward)
    THEN << RAdd(reward[t], RMul(gamma, next_value[t])) >>
    ELSE LET rest == TdLambdaFrom(t + 1, gamma, lmbda, next_value, reward)
             boot == RAdd(RMul(RSub(RInt(1), lmbda), next_value[t]), RMul(lmbda, rest[1]))
         IN  << RAdd(reward[t], RMul(gamma, boot)) >> \o rest

vec_td_lambda_return_estimate(gamma, lmbda, next_value, reward, done) ==
    [b \in 1..Len(reward) |->
        IF reward[b] = << >> THEN << >>
        ELSE TdLambdaFrom(1, gamma, lmbda, next_value[b], reward[b])]

\* DreamerActorLoss.lambda_target (dreamer.py 212-216)
lambda_target(gamma, lmbda, reward, value) ==
    LET done == [b \in 1..Len(reward) |-> [t \in 1..Len(reward[b]) |-> FALSE]]
    IN  vec_td_lambda_return_estimate(
            gamma, lmbda,
            [b \in 1..Len(value) |-> DropFirst(value[b])],
            [b \in 1..Len(reward) |-> DropLast(reward[b])],
            [b \in 1..Len(done) |-> DropLast(done[b])])

\* discount.cumprod(dim=1) on one row
RECURSIVE CumProd(_)
CumProd(row) ==
    IF Len(row) <= 1 THEN row
    ELSE LET front == CumProd(DropLast(row))
         IN  Append(front, RMul(front[Len(front)], row[Len(row)]))

\* the discount with the first entry left at gamma
DiscountAllGamma(gamma, n) == CumProd([t \in 1..n |-> gamma])

\* dreamer.py 196-198, 248-252: gamma * ones, discount[:, 0] = 1, cumprod(dim=1),
\* the same row for every batch element
Discount(gamma, n) == CumProd([t \in 1..n |-> IF t = 1 THEN RInt(1) ELSE gamma])

\* x.mean() of a [batch][time] matrix
MeanAll(x) ==
    RDivInt(RSum([b \in 1..Len(x) |-> RSum(x[b])]), Len(x) * Len(x[1]))

\* the actor loss without its minus sign
actor_loss_positive(lt, gamma, discount_loss) ==
    IF discount_loss
    THEN LET discount == Discount(gamma, Len(lt[1]))
         IN  MeanAll([b \in 1..Len(lt) |->
                         [t \in 1..Len(lt[b]) |-> RMul(lt[b][t], discount[t])]])
    ELSE MeanAll(lt)

\* dreamer.py 195-201
actor_loss(lt, gamma, discount_loss) ==
    IF discount_loss
    THEN LET discount == Discount(gamma, Len(lt[1]))
         IN  RNeg(MeanAll([b \in 1..Len(lt) |->
                              [t \in 1..Len(lt[b]) |-> RMul(lt[b][t], discount[t])]]))
    ELSE RNeg(MeanAll(lt))

\* distance_loss(v1, v2, "l2"): the squared difference, element by element
distance_loss(v1, v2) ==
    [b \in 1..Len(v1) |->
        [t \in 1..Len(v1[b]) |-> RMul(RSub(v1[b][t], v2[b][t]), RSub(v1[b][t], v2[b][t]))]]

\* dreamer.py 247-274: the sum over time and feature, then the mean over the batch
value_loss(pv, lt, gamma, discount_loss) ==
    LET dist == distance_loss(pv, lt)
        discount == Discount(gamma, Len(lt[1]))
        weighted == IF discount_loss
                    THEN [b \in 1..Len(dist) |->
                             [t \in 1..Len(dist[b]) |-> RMul(discount[t], dist[b][t])]]
                    ELSE dist
    IN  RDivInt(RSum([b \in 1..Len(weighted) |-> RSum(weighted[b])]), Len(weighted))

\* the tensordict get of a key that may be missing
HasKey(td, key) == key \in DOMAIN td

\* DreamerActorLoss.forward from the rollout on (dreamer.py 180-210): the loss
\* and the tensordict it returns
DreamerActorForward(inp) ==
    LET lt == lambda_target(inp.gamma, inp.lmbda, inp.reward, inp.value)
        td == [ reward |-> [b \in 1..Len(inp.reward) |-> TdDropLast(inp.reward[b])],
                predicted_value |-> [b \in 1..Len(inp.value) |-> TdDropLast(inp.value[b])],
                lambda_target |-> lt ]
    IN  [ kind |-> "loss",
          loss_actor |-> actor_loss(lt, inp.gamma, inp.discount_loss),
          discount |-> IF inp.discount_loss
                       THEN [kind |-> "tensor", row |-> Discount(inp.gamma, Len(lt[1]))]
                       ELSE None,
          td |-> td ]

\* DreamerValueLoss.forward (dreamer.py 245-284); the value model predicts on
\* the tensordict the values it predicted in the actor loss
DreamerValueForward(td, gamma, discount_loss) ==
    IF ~HasKey(td, "lambda_target")
    THEN [kind |-> "raise", exc |-> "KeyError"]
    ELSE [ kind |-> "loss",
           loss_value |-> value_loss(td.predicted_value, td.lambda_target,
                                      gamma, discount_loss),
           discount |-> IF discount_loss
                        THEN [kind |-> "tensor",
                              row |-> Discount(gamma, Len(td.lambda_target[1]))]
                        ELSE None ]

Gammas == { Frac(k, GammaDen) : k \in 0..GammaDen }

\* the imagined rollouts of the model: rewards and values differ along time and
\* between batch elements
DreamerInputs ==
    { [ reward |-> [b \in 1..nb |-> [t \in 1..T |-> RInt(r0 + ((b + t) % 2))]],
        value |-> [b \in 1..nb |-> [t \in 1..T |->
                      RInt(((v0 + t * vstep) % (MaxValue + 1)) + b - 1)]],
        gamma |-> g, lmbda |-> l, discount_loss |-> dl,
        value_gamma |-> vg, value_discount_loss |-> vdl ] :
      nb \in 1..MaxImagBatch, T \in {MaxHorizon - 1, MaxHorizon}, r0 \in 0..MaxReward,
      v0 \in 0..MaxValue, vstep \in 0..1,
      g \in Gammas, l \in Gammas, dl \in BOOLEAN, vg \in Gammas, vdl \in BOOLEAN }

InitDreamer ==
    /\ pc = "start"
    /\ HelpersIdle
    /\ decode = None /\ seeding = None /\ serial = None /\ vecenv = None /\ stats = None
    /\ \E inp \in DreamerInputs :
          dreamer = [ inp |-> inp,
                      \* the sampled tensordict the step starts from
                      td |-> [reward |-> inp.reward],
                      actor |-> None, value |-> None ]

\* actor_loss_td, sampled_tensordict = actor_loss(sampled_tensordict)
ActorForward ==
    /\ pc = "start"
    /\ LET out == DreamerActorForward(dreamer.inp)
       IN  dreamer' = [dreamer EXCEPT
                          !.actor = [kind |-> "loss", loss_actor |-> out.loss_actor,
                                     discount |-> out.discount],
                          !.td = out.td]
    /\ pc' = "actor"
    /\ UNCHANGED helperVars
    /\ UNCHANGED <<decode, seeding, serial, vecenv, stats>>

\* value_loss_td, sampled_tensordict = value_loss(sampled_tensordict)
ValueForward ==
    /\ pc \in {"start", "actor"}
    /\ dreamer' = [dreamer EXCEPT !.value =
                      DreamerValueForward(dreamer.td, dreamer.inp.value_gamma,
                                          dreamer.inp.value_discount_loss)]
    /\ pc' = "value"
    /\ UNCHANGED helperVars
    /\ UNCHANGED <<decode, seeding, serial, vecenv, stats>>

NextDreamer == ActorForward \/ ValueForward

SpecDreamer == InitDreamer /\ [][NextDreamer]_vars

RECURSIVE RPow(_, _)
RPow(x, n) == IF n = 0 THEN RInt(1) ELSE RMul(x, RPow(x, n - 1))

\* the sum over batch and time of x[b][t], times g^(t-1) when weighted
RECURSIVE WeightedRow(_, _, _, _)
WeightedRow(row, t, g, weighted) ==
    IF t = 0 THEN RInt(0)
    ELSE RAdd(WeightedRow(row, t - 1, g, weighted),
              IF weighted THEN RMul(row[t], RPow(g, t - 1)) ELSE row[t])

RECURSIVE WeightedTotal(_, _, _, _)
WeightedTotal(x, b, g, weighted) ==
    IF b = 0 THEN RInt(0)
    ELSE RAdd(WeightedTotal(x, b - 1, g, weighted),
              WeightedRow(x[b], Len(x[b]), g, weighted))

ActorRan == dreamer.actor # None
ValueRan == dreamer.value # None /\ dreamer.value.kind = "loss"
ImagBatch == Len(dreamer.inp.reward)
ImagSteps == Len(dreamer.inp.reward[1])

\* C11 as stated: loss_actor is minus the mean over all batch elements and
\* imagined time steps of the lambda_target values.
C11_NegativeLambdaMean ==
    (pc \in {"actor", "value"} /\ ActorRan) =>
        dreamer.actor.loss_actor =
            RNeg(RDivInt(WeightedTotal(dreamer.td.lambda_target, ImagBatch, RInt(1), FALSE),
                         ImagBatch * (ImagSteps - 1)))

\* C11 amended: loss_actor is minus the mean of the lambda_target values when
\* discount_loss is False, and minus the mean of the lambda_target values each
\* multiplied by gamma^t (t its 0-based time index) when discount_loss is True.
C11_NegativeDiscountedLambdaMean ==
    (pc \in {"actor", "value"} /\ ActorRan) =>
        dreamer.actor.loss_actor =
            RNeg(RDivInt(WeightedTotal(dreamer.td.lambda_target, ImagBatch,
                                       dreamer.inp.gamma, dreamer.inp.discount_loss),
                         ImagBatch * (ImagSteps - 1)))

C11_Witness ==
    /\ pc = "actor" /\ ActorRan
    /\ dreamer.inp.discount_loss /\ dreamer.inp.gamma = Frac(1, 2)
    /\ ImagSteps = 3 /\ ImagBatch = 2
    /\ dreamer.actor.loss_actor.num < 0
    /\ dreamer.actor.loss_actor # RNeg(MeanAll(dreamer.td.lambda_target))

\* the discount of a loss is 1 at time index 0 and gamma times the previous
\* entry at each later index
IsGammaPowers(d, g) ==
    /\ d.kind = "tensor"
    /\ d.row[1] = RInt(1)
    /\ \A t \in 2..Len(d.row) : d.row[t] = RMul(g, d.row[t - 1])
    /\ \A t \in 1..Len(d.row) : d.row[t] = RPow(g, t - 1)

C13_LambdaTargetFromActor ==
    /\ HasKey(dreamer.td, "lambda_target") => ActorRan
    /\ ValueRan => (ActorRan /\ HasKey(dreamer.td, "lambda_target"))
    /\ (pc = "value" /\ ~ActorRan) => dreamer.value.kind = "raise"
    /\ ActorRan =>
          \A b \in 1..ImagBatch :
              /\ \A key \in DOMAIN dreamer.td : Len(dreamer.td[key][b]) = ImagSteps - 1
              /\ LET r == dreamer.inp.reward[b]
                     v == dreamer.inp.value[b]
                     lt == dreamer.td.lambda_target[b]
                     g == dreamer.inp.gamma
                     n == ImagSteps - 1
                 IN  /\ lt[n] = RAdd(r[n], RMul(g, v[n + 1]))
                     /\ dreamer.inp.lmbda = RInt(0) =>
                           \A t \in 1..n : lt[t] = RAdd(r[t], RMul(g, v[t + 1]))

C13_Witness ==
    /\ pc = "value" /\ ActorRan /\ ValueRan
    /\ ImagSteps = 3
    /\ Len(dreamer.td.lambda_target[1]) = 2
    /\ dreamer.inp.lmbda = Frac(1, 2) /\ dreamer.inp.gamma = RInt(1)
    /\ dreamer.td.lambda_target[1][1].num > 0

(***************************************************************************)
(* DreamerEnv.decode_obs (envs/model_based/dreamer.py 64-69)               *)
(* A tensordict is a record of entries; the trace lists the modules        *)
(* invoked by one call, in order.                                          *)
(***************************************************************************)

\* the world model passed to __init__: writes the next latent state
world_model(td) ==
    [k \in DOMAIN td \cup {"next_state"} |->
        IF k = "next_state" THEN (td.state + 1) % (MaxLatent + 1) ELSE td[k]]

\* the observation decoder passed to __init__: decodes the latest latent state
obs_decoder(td) ==
    [k \in DOMAIN td \cup {"reco_pixels"} |->
        IF k = "reco_pixels"
        THEN (IF "next_state" \in DOMAIN td THEN 10 * td.next_state ELSE 10 * td.state)
        ELSE td[k]]

\* self(tensordict): the env called as a module runs its world model once
ModelBasedEnvCall(td) == [trace |-> << "world_model" >>, td |-> world_model(td)]

\* decode_obs that computes the latents before it looks for the decoder
decode_obs_latents_first(has_decoder, tensordict, compute_latents) ==
    LET called == IF compute_latents THEN ModelBasedEnvCall(tensordict)
                  ELSE [trace |-> << >>, td |-> tensordict]
    IN  IF ~has_decoder
        THEN [kind |-> "raise", exc |-> "ValueError", trace |-> called.trace]
        ELSE [kind |-> "return", trace |-> Append(called.trace, "obs_decoder"),
              td |-> obs_decoder(called.td)]

decode_obs(has_decoder, tensordict, compute_latents) ==
    IF ~has_decoder
    THEN [kind |-> "raise", exc |-> "ValueError", trace |-> << >>]
    ELSE LET called == IF compute_latents THEN ModelBasedEnvCall(tensordict)
                       ELSE [trace |-> << >>, td |-> tensordict]
         IN  [kind |-> "return", trace |-> Append(called.trace, "obs_decoder"),
              td |-> obs_decoder(called.td)]

Count(trace, name) == Cardinality({i \in 1..Len(trace) : trace[i] = name})

\* DreamerEnv(world_model, prior_shape, belief_shape, obs_decoder=None | decoder)
InitDecode ==
    /\ pc = "start"
    /\ HelpersIdle
    /\ dreamer = None /\ seeding = None /\ serial = None /\ vecenv = None /\ stats = None
    /\ \E has_decoder \in BOOLEAN :
          decode = [ has_decoder |-> has_decoder, calls |-> 0, latent_calls |-> 0,
                     world_model_calls |-> 0, obs_decoder_calls |-> 0, last |-> None ]

\* env.decode_obs(tensordict, compute_latents)
DecodeObs ==
    /\ pc \in {"start", "decoded"}
    /\ decode.calls < MaxDecodeCalls
    /\ \E x \in 0..MaxLatent, compute_latents \in BOOLEAN :
          LET tensordict == [state |-> x]
              out == decode_obs(decode.has_decoder, tensordict, compute_latents)
          IN  decode' = [ decode EXCEPT
                  !.calls = @ + 1,
                  !.latent_calls = @ + (IF compute_latents THEN 1 ELSE 0),
                  !.world_model_calls = @ + Count(out.trace, "world_model"),
                  !.obs_decoder_calls = @ + Count(out.trace, "obs_decoder"),
                  !.last = [ tensordict |-> tensordict,
                             compute_latents |-> compute_latents, out |-> out ] ]
    /\ pc' = "decoded"
    /\ UNCHANGED helperVars
    /\ UNCHANGED <<dreamer, seeding, serial, vecenv, stats>>

NextDecode == DecodeObs

SpecDecode == InitDecode /\ [][NextDecode]_vars

\* C14: without an obs_decoder every decode_obs call raises ValueError and no
\* module is invoked, whatever compute_latents is; with a decoder the world model
\* is invoked once, before the decoder, exactly when compute_latents is True,
\* and the decoder is invoked exactly once per call.
C14_DecodeObsOrder ==
    decode.last # None =>
        LET out == decode.last.out
        IN  /\ ~decode.has_decoder =>
                  /\ out.kind = "raise" /\ out.exc = "ValueError"
                  /\ out.trace = << >>
                  /\ decode.world_model_calls = 0
                  /\ decode.obs_decoder_calls = 0
            /\ decode.has_decoder =>
                  /\ out.kind = "return"
                  /\ out.trace = IF decode.last.compute_latents
                                 THEN << "world_model", "obs_decoder" >>
                                 ELSE << "obs_decoder" >>
                  /\ decode.obs_decoder_calls = decode.calls
                  /\ decode.world_model_calls = decode.latent_calls
                  /\ out.td.reco_pixels =
                         IF decode.last.compute_latents
                         THEN 10 * ((decode.last.tensordict.state + 1) % (MaxLatent + 1))
                         ELSE 10 * decode.last.tensordict.state

\* a ValueError on a call that asked for the latents
C14_Witness ==
    /\ decode.last # None
    /\ ~decode.has_decoder
    /\ decode.last.compute_latents
    /\ decode.last.out.kind = "raise"
    /\ decode.calls = 2

(***************************************************************************)
(* MockSerialEnv (mocking_classes.py 95-128)                               *)
(* An env is a record of its attributes; counter and max_val do not exist  *)
(* before the first set_seed (__init__ does not set them).                 *)
(***************************************************************************)

Max(a, b) == IF a >= b THEN a ELSE b

\* seed % 17
SeedCounterUnwrapped(seed) == seed
SeedCounter(seed) == seed % 17

\* max(self.counter + 100, self.counter * 2)
MaxVal(counter) == Max(counter + 100, counter * 2)

\* torchrl.seed_generator: the next seed, a function of the seed alone
seed_generator(seed) == [kind |-> "seed_generator", of |-> seed]

\* self.counter >= self.max_val
DoneAfter(counter, max_val) == counter > max_val
DoneAt(counter, max_val) == counter >= max_val

MockSerialEnv == [seeded |-> FALSE, seed |-> 0, counter |-> 0, max_val |-> 0]

Raised(exc) == [kind |-> "raise", exc |-> exc]
Returned(td) == [kind |-> "return", td |-> td]

\* MockSerialEnv.set_seed: the env afterwards and what the call returns
serial_set_seed(env, seed, static_seed) ==
    IF ~(seed >= 1)
    THEN [env |-> env, out |-> Raised("AssertionError")]
    ELSE [env |-> [seeded |-> TRUE, seed |-> seed, counter |-> SeedCounter(seed),
                   max_val |-> MaxVal(SeedCounter(seed))],
          out |-> Returned(IF static_seed THEN seed ELSE seed_generator(seed))]

\* MockSerialEnv._step
serial_step(env) ==
    IF ~env.seeded
    THEN [env |-> env, out |-> Raised("AttributeError")]
    ELSE LET counter == env.counter + 1
             done == DoneAt(counter, env.max_val)
         IN  [env |-> [env EXCEPT !.counter = counter],
              out |-> Returned([reward |-> counter, done |-> done,
                                next_observation |-> counter])]

\* a reset that leaves max_val as it is
serial_reset_keep(env) ==
    IF ~env.seeded
    THEN [env |-> env, out |-> Raised("AttributeError")]
    ELSE [env |-> env,
          out |-> Returned([done |-> DoneAt(env.counter, env.max_val),
                            next_observation |-> env.counter])]

\* MockSerialEnv._reset
serial_reset(env) ==
    IF ~env.seeded
    THEN [env |-> env, out |-> Raised("AttributeError")]
    ELSE LET max_val == MaxVal(env.counter)
         IN  [env |-> [env EXCEPT !.max_val = max_val],
              out |-> Returned([done |-> DoneAt(env.counter, max_val),
                                next_observation |-> env.counter])]

\* env = MockSerialEnv(device); the history records, since the last set_seed
\* that returned: the operation just run, its result, the counter before it, the
\* observation emitted before it, the numbers of steps and resets, and, since
\* the last reset, the counter it saw and the steps taken
InitSerial ==
    /\ pc = "start"
    /\ HelpersIdle
    /\ dreamer = None /\ decode = None /\ seeding = None /\ vecenv = None /\ stats = None
    /\ serial = [ env |-> MockSerialEnv, op |-> "init", out |-> None,
                  counter_before |-> 0, obs_before |-> -1,
                  steps |-> 0, resets |-> 0, reset_at |-> 0, steps_since_reset |-> 0 ]

SerialSeeds == {0, 1, MaxSerialSeed}

SerialObsBefore ==
    IF serial.out # None /\ serial.out.kind = "return" /\ serial.op \in {"step", "reset"}
    THEN serial.out.td.next_observation
    ELSE serial.obs_before

SerialSetSeed ==
    /\ \E seed \in SerialSeeds, static_seed \in BOOLEAN :
          LET r == serial_set_seed(serial.env, seed, static_seed)
          IN  serial' = IF r.out.kind = "raise"
                        THEN [serial EXCEPT !.op = "set_seed", !.out = r.out,
                                            !.counter_before = serial.env.counter,
                                            !.obs_before = SerialObsBefore]
                        ELSE [ env |-> r.env, op |-> "set_seed", out |-> r.out,
                               counter_before |-> serial.env.counter, obs_before |-> -1,
                               steps |-> 0, resets |-> 0, reset_at |-> 0,
                               steps_since_reset |-> 0 ]
    /\ pc' = "seeded"
    /\ UNCHANGED helperVars
    /\ UNCHANGED <<dreamer, decode, seeding, vecenv, stats>>

SerialStep ==
    /\ serial.env.counter < MaxSerialCounter
    /\ LET r == serial_step(serial.env)
       IN  serial' = [serial EXCEPT
                         !.env = r.env, !.op = "step", !.out = r.out,
                         !.counter_before = serial.env.counter,
                         !.obs_before = SerialObsBefore,
                         !.steps = IF r.out.kind = "return" THEN @ + 1 ELSE @,
                         !.steps_since_reset = IF r.out.kind = "return" THEN @ + 1 ELSE @]
    /\ pc' = "stepped"
    /\ UNCHANGED helperVars
    /\ UNCHANGED <<dreamer, decode, seeding, vecenv, stats>>

SerialReset ==
    /\ LET r == serial_reset(serial.env)
       IN  serial' = IF r.out.kind = "raise"
                     THEN [serial EXCEPT !.op = "reset", !.out = r.out,
                                         !.counter_before = serial.env.counter,
                                         !.obs_before = SerialObsBefore]
                     ELSE [serial EXCEPT
                              !.env = r.env, !.op = "reset", !.out = r.out,
                              !.counter_before = serial.env.counter,
                              !.obs_before = SerialObsBefore,
                              !.resets = 1,
                              !.reset_at = serial.env.counter,
                              !.steps_since_reset = 0]
    /\ pc' = "reset"
    /\ UNCHANGED helperVars
    /\ UNCHANGED <<dreamer, decode, seeding, vecenv, stats>>

NextSerial == SerialSetSeed \/ SerialStep \/ SerialReset

SpecSerial == InitSerial /\ [][NextSerial]_vars

SerialStepped ==
    serial.op = "step" /\ serial.out # None /\ serial.out.kind = "return"

\* C16: after set_seed(seed), seed >= 1, and with no reset since, the n-th step
\* leaves the counter, the observation and the reward at seed mod 17 + n, one more
\* than before it, and reports done exactly when n >= 100: False on steps 1..99,
\* True on step 100 and on every later step.
C16_DoneAtHundredthStep ==
    (serial.env.seeded /\ serial.resets = 0) =>
        /\ serial.env.seed >= 1
        /\ serial.env.counter = (serial.env.seed % 17) + serial.steps
        /\ SerialStepped =>
              /\ serial.env.counter = serial.counter_before + 1
              /\ serial.out.td.next_observation = serial.env.counter
              /\ serial.out.td.reward = serial.env.counter
              /\ serial.out.td.done = (serial.steps >= 100)

C16_Witness ==
    /\ serial.env.seeded /\ serial.resets = 0 /\ SerialStepped
    /\ serial.steps = 100
    /\ serial.out.td.done

\* C19: a reset leaves the counter as it is, reports done = False and sets
\* max_val to max(counter + 100, 2 * counter); after a reset at counter c a step
\* reports done exactly when at least max(100, c) steps were taken since; and
\* between two set_seed calls no observation is below the one before it, a
\* step's observation being above it.
C19_ResetSemantics ==
    /\ (serial.op = "reset" /\ serial.out.kind = "return") =>
          /\ serial.env.counter = serial.counter_before
          /\ serial.out.td.done = FALSE
          /\ serial.out.td.next_observation = serial.env.counter
          /\ serial.env.max_val =
                IF serial.env.counter + 100 >= 2 * serial.env.counter
                THEN serial.env.counter + 100 ELSE 2 * serial.env.counter
    /\ (SerialStepped /\ serial.resets > 0) =>
          serial.out.td.done =
              (serial.steps_since_reset >=
                  (IF serial.reset_at > 100 THEN serial.reset_at ELSE 100))
    /\ (serial.env.seeded /\ serial.op \in {"step", "reset"}
           /\ serial.out.kind = "return") =>
          /\ serial.out.td.next_observation >= serial.obs_before
          /\ serial.op = "step" => serial.out.td.next_observation > serial.obs_before

\* first done after a reset at a counter above 100
C19_Witness ==
    /\ SerialStepped /\ serial.resets > 0
    /\ serial.reset_at > 100
    /\ serial.steps_since_reset = serial.reset_at
    /\ serial.out.td.done

(***************************************************************************)
(* _MockEnv, DiscreteActionVecMockEnv, ContinuousActionVecMockEnv          *)
(* (mocking_classes.py 56-92, 264-380)                                     *)
(* Observations are counted in units of 1 / maxstep, so that adding        *)
(* a / maxstep adds a, and isclose is equality.                            *)
(***************************************************************************)

size == 7
maxstep == 100

\* self.is_done after a reset or a step of EnvBase: the done flag it returned
SetIsDone(env, done) == [env EXCEPT !.is_done = done]

\* _MockEnv.set_seed
mock_set_seed(env, seed, static_seed) ==
    [env |-> [env EXCEPT !.seed = seed, !.counter = SeedCounter(seed)],
     out |-> Returned(IF static_seed THEN seed ELSE seed_generator(seed))]

\* _MockEnv.__init__ of one of the two vector envs
MockEnv(kind, seed) ==
    mock_set_seed([kind |-> kind, seed |-> 0, counter |-> 0, is_done |-> FALSE,
                   step_count |-> Absent], seed, FALSE).env

\* torch.zeros(self.size) + self.counter
State(counter) == [i \in 1..size |-> maxstep * counter]

\* DiscreteActionVecMockEnv._reset / ContinuousActionVecMockEnv._reset
vec_reset(env) ==
    LET counter == env.counter + 1
        state == State(counter)
    IN  [env |-> SetIsDone([env EXCEPT !.counter = counter,
                                       !.step_count = IF env.kind = "continuous"
                                                      THEN Attr(0) ELSE @],
                           FALSE),
         out |-> Returned([next_observation |-> state, next_observation_orig |-> state,
                           done |-> FALSE])]

SumSeqInt(a) == SumSeq(a)

\* torch.isclose(obs, torch.ones_like(obs) * (self.counter + 1))
IsClose(obs, counter) == [i \in 1..Len(obs) |-> obs[i] = maxstep * (counter + 1)]

\* done.any(-1) / done.all(-1)
AnyOf(close) == \E i \in 1..Len(close) : close[i]
AllOf(close) == \A i \in 1..Len(close) : close[i]

\* the done flag of ContinuousActionVecMockEnv._step
ContinuousDoneAny(close) == AnyOf(close)
ContinuousDone(close) == AllOf(close)

RaisedAt(exc, line) == [kind |-> "raise", exc |-> exc, line |-> line]

\* DiscreteActionVecMockEnv._step
discrete_step(env, tensordict) ==
    LET a == tensordict.action
    IN  IF SumSeqInt(a) # 1 THEN [env |-> env, out |-> RaisedAt("AssertionError", 305)]
        ELSE IF env.is_done THEN [env |-> env, out |-> RaisedAt("AssertionError", 306)]
        ELSE LET obs == [i \in 1..size |-> tensordict.observation_orig[i] + a[i]]
                 close == IsClose(obs, env.counter)
             IN  [env |-> SetIsDone(env, FALSE),
                  out |-> Returned([next_observation |-> obs, next_observation_orig |-> obs,
                                    reward |-> IF AnyOf(close) THEN 1 ELSE 0,
                                    done |-> FALSE])]

\* ContinuousActionVecMockEnv._step
continuous_step(env, tensordict) ==
    IF ~env.step_count.has THEN [env |-> env, out |-> RaisedAt("AttributeError", 361)]
    ELSE LET counted == [env EXCEPT !.step_count = Attr(@.val + 1)]
             a == tensordict.action
         IN  IF env.is_done THEN [env |-> counted, out |-> RaisedAt("AssertionError", 364)]
             ELSE LET obs == [i \in 1..size |-> tensordict.observation_orig[i] + a[i]]
                      close == IsClose(obs, env.counter)
                      done == ContinuousDone(close)
                  IN  [env |-> SetIsDone(counted, done),
                       out |-> Returned([next_observation |-> obs,
                                         next_observation_orig |-> obs,
                                         reward |-> IF AnyOf(close) THEN 1 ELSE 0,
                                         done |-> done])]

vec_step(env, tensordict) ==
    IF env.kind = "discrete" THEN discrete_step(env, tensordict)
    ELSE continuous_step(env, tensordict)

OneHot(j, k) == [i \in 1..k |-> IF i = j THEN 1 ELSE 0]

(***************************************************************************)
(* Seeding: two instances of one class, with different pasts, are given    *)
(* the same calls.                                                         *)
(***************************************************************************)

\* the env after set_seed, reset or step; a step of a vector env reads the
\* tensordict its last reset or step returned
SeedOp(kind, e, td, op) ==
    IF op.name = "set_seed"
    THEN (IF kind = "serial" THEN serial_set_seed(e, op.seed, op.static_seed)
          ELSE mock_set_seed(e, op.seed, op.static_seed))
    ELSE IF op.name = "reset"
    THEN (IF kind = "serial" THEN serial_reset(e) ELSE vec_reset(e))
    ELSE IF kind = "serial" THEN serial_step(e)
    ELSE IF td = None THEN [env |-> e, out |-> Raised("KeyError")]
    ELSE vec_step(e, [observation_orig |-> td.next_observation_orig, action |-> op.action])

SerialPasts ==
    { MockSerialEnv,
      serial_set_seed(MockSerialEnv, 3, FALSE).env,
      serial_step(serial_set_seed(MockSerialEnv, 20, FALSE).env).env }

DiscretePasts ==
    { MockEnv("discrete", 100),
      MockEnv("discrete", 0),
      vec_reset(MockEnv("discrete", 5)).env }

InitSeed ==
    /\ pc = "start"
    /\ HelpersIdle
    /\ dreamer = None /\ decode = None /\ serial = None /\ vecenv = None /\ stats = None
    /\ \E kind \in {"serial", "discrete"} :
       \E e1 \in (IF kind = "serial" THEN SerialPasts ELSE DiscretePasts),
          e2 \in (IF kind = "serial" THEN SerialPasts ELSE DiscretePasts) :
          seeding = [ kind |-> kind, env |-> << e1, e2 >>, td |-> << None, None >>,
                      out |-> << None, None >>, op |-> None, ops |-> 0,
                      seed |-> 0, static_seed |-> FALSE ]

SeedApply(op) ==
    LET r == [i \in 1..2 |-> SeedOp(seeding.kind, seeding.env[i], seeding.td[i], op)]
    IN  seeding' = [ seeding EXCEPT
            !.env = [i \in 1..2 |-> r[i].env],
            !.out = [i \in 1..2 |-> r[i].out],
            !.td = [i \in 1..2 |->
                       IF op.name # "set_seed" /\ r[i].out.kind = "return"
                       THEN r[i].out.td ELSE seeding.td[i]],
            !.op = op.name,
            !.ops = @ + 1,
            !.seed = IF op.name = "set_seed" THEN op.seed ELSE @,
            !.static_seed = IF op.name = "set_seed" THEN op.static_seed ELSE @ ]

\* env1.set_seed(seed, static_seed); env2.set_seed(seed, static_seed)
SeedBoth ==
    /\ seeding.ops < MaxSeedOps
    /\ \E seed \in 0..MaxSeed, static_seed \in BOOLEAN :
          SeedApply([name |-> "set_seed", seed |-> seed, static_seed |-> static_seed])
    /\ pc' = "seeded"
    /\ UNCHANGED helperVars
    /\ UNCHANGED <<dreamer, decode, serial, vecenv, stats>>

ResetBoth ==
    /\ pc # "start"
    /\ seeding.ops < MaxSeedOps
    /\ SeedApply([name |-> "reset"])
    /\ pc' = "reset"
    /\ UNCHANGED helperVars
    /\ UNCHANGED <<dreamer, decode, serial, vecenv, stats>>

StepBoth ==
    /\ pc # "start"
    /\ seeding.ops < MaxSeedOps
    /\ \E action \in {OneHot(1, size), OneHot(size, size), OneHot(0, size)} :
          SeedApply([name |-> "step", action |-> action])
    /\ pc' = "stepped"
    /\ UNCHANGED helperVars
    /\ UNCHANGED <<dreamer, decode, serial, vecenv, stats>>

NextSeed == SeedBoth \/ ResetBoth \/ StepBoth

SpecSeed == InitSeed /\ [][NextSeed]_vars

SeedingAgrees ==
    /\ \A i \in 1..2 :
          /\ seeding.op = "set_seed" =>
                /\ seeding.env[i].counter = seeding.seed % 17
                /\ seeding.env[i].counter \in 0..16
                /\ seeding.kind = "serial" => seeding.env[i].seeded
                /\ seeding.static_seed => seeding.out[i] = Returned(seeding.seed)
    /\ seeding.out[1] = seeding.out[2]
    /\ seeding.env[1].counter = seeding.env[2].counter

MaxOf(x) == CHOOSE m \in {x[i] : i \in 1..Len(x)} : \A i \in 1..Len(x) : x[i] <= m

\* obs == obs.max(dim=-1, keepdim=True)[0]
EqMax(obs) == [i \in 1..Len(obs) |-> IF obs[i] = MaxOf(obs) THEN 1 ELSE 0]

\* cumsum(-1)
NoCumSum(x) == x
CumSum(x) == [i \in 1..Len(x) |-> SumSeq(SubSeq(x, 1, i))]

\* the 0-based index of the last maximal entry
ArgMaxLast(x) == (CHOOSE i \in 1..Len(x) :
                     x[i] = MaxOf(x) /\ \A j \in (i + 1)..Len(x) : x[j] < x[i]) - 1

\* argmax(-1): the 0-based index of the first maximal entry
ArgMax(x) == (CHOOSE i \in 1..Len(x) :
                 x[i] = MaxOf(x) /\ \A j \in 1..(i - 1) : x[j] < x[i]) - 1

\* torch.nn.functional.one_hot(index, k), index 0-based
one_hot(index, k) == [i \in 1..k |-> IF i - 1 = index THEN 1 ELSE 0]

\* DiscreteActionVecPolicy.__call__: the action it sets
DiscreteActionVecPolicy(tensordict) ==
    LET obs == tensordict.observation
        k == Len(obs)
        max_obs == (ArgMax(CumSum(EqMax(obs))) + 1) % k
    IN  one_hot(max_obs, k)

(***************************************************************************)
(* One vector env, reset and stepped                                       *)
(***************************************************************************)

\* the observations a step is handed, around the value that ends an episode:
\* all components alike, or two components set apart from the others
VecObs(counter) ==
    LET target == maxstep * (counter + 1)
    IN  { [i \in 1..size |-> target - z] : z \in 0..MaxOff }
        \cup { [i \in 1..size |-> target - (IF i = p THEN x ELSE IF i = q THEN y ELSE MaxOff)] :
               p \in 1..size, q \in 1..size, x \in 0..MaxOff, y \in 0..MaxOff }

\* the actions a step is handed: in the action spec, and (discrete) outside it
VecActions(kind) ==
    IF kind = "discrete"
    THEN { OneHot(j, size) : j \in 0..size } \cup { [i \in 1..size |-> IF i <= 2 THEN 1 ELSE 0] }
    ELSE { OneHot(j, size) : j \in 1..size } \cup { [i \in 1..size |-> c] : c \in {-1, 0, 1} }

InitVec ==
    /\ pc = "start"
    /\ HelpersIdle
    /\ dreamer = None /\ decode = None /\ serial = None /\ seeding = None /\ stats = None
    /\ \E kind \in {"discrete", "continuous"}, seed \in 0..MaxVecSeed :
          vecenv = [ env |-> MockEnv(kind, seed), op |-> "init", by_policy |-> FALSE,
                     inp |-> None, out |-> None, obs |-> None, steps |-> 0 ]

\* env.reset()
VecReset ==
    /\ vecenv.env.counter < MaxVecCounter
    /\ LET r == vec_reset(vecenv.env)
       IN  vecenv' = [ env |-> r.env, op |-> "reset", by_policy |-> FALSE,
                       inp |-> None, out |-> r.out, obs |-> None, steps |-> 0 ]
    /\ pc' = "reset"
    /\ UNCHANGED helperVars
    /\ UNCHANGED <<dreamer, decode, serial, seeding, stats>>

VecStepWith(obs, action, by_policy) ==
    LET tensordict == [observation_orig |-> obs, action |-> action]
        r == vec_step(vecenv.env, tensordict)
    IN  vecenv' = [ env |-> r.env, op |-> "step", by_policy |-> by_policy,
                    inp |-> tensordict, out |-> r.out,
                    obs |-> IF r.out.kind = "return" THEN r.out.td.next_observation_orig
                            ELSE obs,
                    steps |-> vecenv.steps + 1 ]

VecCanStep == vecenv.steps < MaxVecSteps

\* the observation of the next step: the one the last step returned, and for
\* the first step one of VecObs
VecNextObs ==
    IF vecenv.obs = None THEN VecObs(vecenv.env.counter) ELSE {vecenv.obs}

\* env.step(policy(tensordict))
VecPolicyStep ==
    /\ VecCanStep
    /\ \E obs \in VecNextObs :
          VecStepWith(obs, DiscreteActionVecPolicy([observation |-> obs]), TRUE)
    /\ pc' = "stepped"
    /\ UNCHANGED helperVars
    /\ UNCHANGED <<dreamer, decode, serial, seeding, stats>>

\* env.step(tensordict) with an action of the caller's, as a first step
VecStep ==
    /\ VecCanStep
    /\ vecenv.obs = None
    /\ \E obs \in VecObs(vecenv.env.counter), action \in VecActions(vecenv.env.kind) :
          VecStepWith(obs, action, FALSE)
    /\ pc' = "stepped"
    /\ UNCHANGED helperVars
    /\ UNCHANGED <<dreamer, decode, serial, seeding, stats>>

NextVec == VecReset \/ VecPolicyStep \/ VecStep

SpecVec == InitVec /\ [][NextVec]_vars

VecStepped == vecenv.op = "step" /\ vecenv.out.kind = "return"

\* the components of the new observation that equal counter + 1
VecAtTarget ==
    {i \in 1..size :
        vecenv.out.td.next_observation[i] = maxstep * (vecenv.env.counter + 1)}

\* C18: a step of DiscreteActionVecMockEnv always returns done = False; a step of
\* ContinuousActionVecMockEnv returns done = True exactly when every component
\* of the new observation equals counter + 1; both return reward 1 exactly when
\* at least one component does, and reward 0 otherwise.
C18_VecDoneAndReward ==
    VecStepped =>
        /\ \A i \in 1..size :
              vecenv.out.td.next_observation[i] =
                  vecenv.inp.observation_orig[i] + vecenv.inp.action[i]
        /\ vecenv.env.kind = "discrete" => vecenv.out.td.done = FALSE
        /\ vecenv.env.kind = "continuous" =>
              (vecenv.out.td.done <=> VecAtTarget = 1..size)
        /\ vecenv.out.td.reward = (IF VecAtTarget # {} THEN 1 ELSE 0)

\* the continuous env rewards a step that brings some components, not all, to
\* counter + 1, without ending the episode
C18_Witness ==
    /\ VecStepped
    /\ vecenv.env.kind = "continuous"
    /\ VecAtTarget # {} /\ VecAtTarget # 1..size
    /\ vecenv.out.td.reward = 1
    /\ ~vecenv.out.td.done

\* the 1-based index of the last component of obs that holds its maximum
LastMaxIndex(obs) ==
    CHOOSE i \in 1..Len(obs) :
        /\ \A j \in 1..Len(obs) : obs[j] <= obs[i]
        /\ \A j \in (i + 1)..Len(obs) : obs[j] < obs[i]

\* C20: the action of DiscreteActionVecPolicy is one-hot, its 1 at 0-based index
\* (i + 1) mod k for i the largest 0-based index holding the maximum of the
\* observation, so the step's assertion that the action sums to 1 does not fail.
C20_PolicyOneHot ==
    (vecenv.op = "step" /\ vecenv.by_policy) =>
        LET obs == vecenv.inp.observation_orig
            a == vecenv.inp.action
            k == Len(obs)
            hot == ((LastMaxIndex(obs) - 1 + 1) % k) + 1
        IN  /\ Len(a) = k
            /\ \A i \in 1..k : a[i] = (IF i = hot THEN 1 ELSE 0)
            /\ Cardinality({i \in 1..k : a[i] = 1}) = 1
            /\ vecenv.env.kind = "discrete" =>
                  vecenv.out # RaisedAt("AssertionError", 305)

\* the maximum is held by the last component and by another: the action wraps
\* round to the first
C20_Witness ==
    /\ VecStepped /\ vecenv.by_policy
    /\ vecenv.env.kind = "discrete"
    /\ LastMaxIndex(vecenv.inp.observation_orig) = size
    /\ vecenv.inp.observation_orig[2] = vecenv.inp.observation_orig[size]
    /\ vecenv.inp.observation_orig[1] < vecenv.inp.observation_orig[size]
    /\ vecenv.inp.action = OneHot(1, size)

(***************************************************************************)
(* get_stats_random_rollout (envs.py 247-282)                              *)
(* A sample of the observation is finite (a number), inf or nan; the       *)
(* standard deviation is kept as its square.                               *)
(***************************************************************************)

Finite(v) == [cls |-> "finite", v |-> v]
Inf == [cls |-> "inf", v |-> 0]
NaN == [cls |-> "nan", v |-> 0]

\* proof_environment.rollout(n_steps): the number of steps it returns, the
\* episode ending after `episode` steps
RolloutNumel(episode, n_steps) == IF episode < n_steps THEN episode ELSE n_steps

\* the while loop (lines 254-259): the rollouts run and the steps collected
RECURSIVE RolloutLoop(_, _, _, _)
RolloutLoop(n, rollouts, init_env_steps, episode) ==
    IF n < init_env_steps
    THEN RolloutLoop(n + RolloutNumel(episode, init_env_steps), rollouts + 1,
                     init_env_steps, episode)
    ELSE [numel |-> n, rollouts |-> rollouts]

\* td_stats.get(key): the samples collected, here one number per step
Samples(numel, bad, stride) ==
    [i \in 1..numel |-> IF i = 1 /\ bad # "none"
                        THEN (IF bad = "inf" THEN Inf ELSE NaN)
                        ELSE Finite((i * stride) % 2)]

Values(x) == [i \in 1..Len(x) |-> x[i].v]
Squares(x) == [i \in 1..Len(x) |-> x[i].v * x[i].v]

\* mean(dim=0)
MeanOf(x) ==
    IF \E i \in 1..Len(x) : x[i].cls = "nan" THEN NaN
    ELSE IF \E i \in 1..Len(x) : x[i].cls = "inf" THEN Inf
    ELSE Finite(Frac(SumSeq(Values(x)), Len(x)))

\* std(dim=0).clamp_min(1e-5): nan for one sample or a non-finite one, else the
\* unbiased variance, and whether the clamp raised it
StdOf(x) ==
    IF Len(x) = 1 \/ \E i \in 1..Len(x) : x[i].cls # "finite" THEN NaN
    ELSE LET n == Len(x)
             var == Frac(n * SumSeq(Squares(x)) - SumSeq(Values(x)) * SumSeq(Values(x)),
                         n * (n - 1))
         IN  [cls |-> "finite", v |-> var, clamped |-> var.num = 0]

\* torch.isfinite(x).all()
IsFiniteAlways(x) == TRUE
IsFinite(x) == x.cls = "finite"

\* the keys of a rollout's tensordict
RolloutKeys(observation_keys) ==
    {observation_keys[i] : i \in 1..Len(observation_keys)} \cup {"action", "reward", "done"}

get_stats_random_rollout(args, proof_environment, key) ==
    IF ~hasattr(args, "init_env_steps")
    THEN [out |-> RaisedAt("AttributeError", 252), rollouts |-> 0, numel |-> 0]
    ELSE
    LET loop == RolloutLoop(0, 0, args.init_env_steps.val, proof_environment.episode)
        keys == proof_environment.observation_keys
        failed(line, exc) == [out |-> RaisedAt(exc, line), rollouts |-> loop.rollouts,
                              numel |-> loop.numel]
    IN  IF loop.rollouts = 0 THEN failed(260, "RuntimeError")
        ELSE IF key = None /\ keys = << >> THEN failed(264, "IndexError")
        ELSE IF key = None /\ Len(keys) > 1 THEN failed(266, "RuntimeError")
        ELSE LET the_key == IF key = None THEN keys[Len(keys)] ELSE key.name
             IN  IF the_key \notin RolloutKeys(keys) THEN failed(270, "KeyError")
                 ELSE LET x == Samples(loop.numel, proof_environment.bad,
                                       proof_environment.stride)
                          m == MeanOf(x)
                          s == StdOf(x)
                      IN  IF ~IsFinite(m) THEN failed(278, "RuntimeError")
                          ELSE IF ~IsFinite(s) THEN failed(280, "RuntimeError")
                          ELSE [out |-> Returned([loc |-> m, scale |-> s]),
                                rollouts |-> loop.rollouts, numel |-> loop.numel]

StatsInputs ==
    { [ args |-> [init_env_steps |-> steps],
        proof_environment |-> [episode |-> episode, observation_keys |-> keys,
                               bad |-> bad, stride |-> stride],
        key |-> key ] :
      steps \in {Absent} \cup {Attr(n) : n \in 0..MaxInitSteps},
      episode \in 1..MaxEpisode,
      keys \in {<< >>, << "next_observation" >>, << "next_pixels", "next_observation" >>},
      bad \in {"none", "inf", "nan"},
      stride \in 0..1,
      key \in {None} \cup {[kind |-> "key", name |-> k] :
                              k \in {"next_observation", "next_pixels"}} }

InitStats ==
    /\ pc = "start"
    /\ HelpersIdle
    /\ dreamer = None /\ decode = None /\ serial = None /\ seeding = None /\ vecenv = None
    /\ \E inp \in StatsInputs : stats = [inp |-> inp, result |-> None]

\* stats = get_stats_random_rollout(args, proof_environment, key)
GetStatsRandomRollout ==
    /\ pc = "start"
    /\ stats' = [stats EXCEPT !.result =
                    get_stats_random_rollout(stats.inp.args, stats.inp.proof_environment,
                                             stats.inp.key)]
    /\ pc' = "done"
    /\ UNCHANGED helperVars
    /\ UNCHANGED <<dreamer, decode, serial, seeding, vecenv>>

NextStats == GetStatsRandomRollout

SpecStats == InitStats /\ [][NextStats]_vars

StatsFailedWith(exc) ==
    stats.result.out.kind = "raise" /\ stats.result.out.exc = exc

\* a key the rollout holds was given, or the observation_spec has exactly one
StatsKeyResolved ==
    LET keys == stats.inp.proof_environment.observation_keys
    IN  IF stats.inp.key = None THEN Len(keys) = 1
        ELSE \E i \in 1..Len(keys) : keys[i] = stats.inp.key.name

\* C17: get_stats_random_rollout raises AttributeError, with no rollout run,
\* when args has no init_env_steps; RuntimeError when key is None and the
\* observation_spec has more than one key; RuntimeError when the mean or the
\* standard deviation of the collected samples is not finite (a sample is inf or
\* nan, or there is one sample only); and what it returns is finite stats.
C17_StatsValidation ==
    pc = "done" =>
        LET inp == stats.inp
            env == inp.proof_environment
        IN  /\ ~inp.args.init_env_steps.has =>
                  /\ StatsFailedWith("AttributeError")
                  /\ stats.result.rollouts = 0
            /\ (inp.args.init_env_steps.has /\ inp.key = None
                   /\ Len(env.observation_keys) > 1) =>
                  StatsFailedWith("RuntimeError")
            /\ (inp.args.init_env_steps.has /\ inp.args.init_env_steps.val >= 1
                   /\ StatsKeyResolved
                   /\ (env.bad # "none" \/ stats.result.numel = 1)) =>
                  StatsFailedWith("RuntimeError")
            /\ stats.result.out.kind = "return" =>
                  /\ stats.result.out.td.loc.cls = "finite"
                  /\ stats.result.out.td.scale.cls = "finite"
                  /\ env.bad = "none"
                  /\ stats.result.rollouts >= 1

\* one finite sample: the mean is finite and the standard deviation is not
C17_Witness ==
    /\ pc = "done"
    /\ stats.inp.proof_environment.bad = "none"
    /\ stats.result.numel = 1
    /\ stats.result.rollouts = 1
    /\ stats.result.out = RaisedAt("RuntimeError", 280)

(***************************************************************************)
(* The closed loop of DiscreteActionVecMockEnv and DiscreteActionVecPolicy *)
(* (mocking_classes.py 287-320, 383-398): reset, then policy and step in   *)
(* turn, each reading the tensordict the other wrote.                      *)
(***************************************************************************)

\* step_tensordict: the next_* entries of a reset or step become the entries
\* the policy and the next step read
step_tensordict(td) ==
    [observation |-> td.next_observation, observation_orig |-> td.next_observation_orig]

InitLoop ==
    /\ pc = "start"
    /\ HelpersIdle
    /\ dreamer = None /\ decode = None /\ serial = None /\ seeding = None /\ stats = None
    /\ \E seed \in 0..MaxLoopSeed :
          vecenv = [ env |-> MockEnv("discrete", seed), op |-> "init", td |-> None,
                     action |-> None, out |-> None, steps |-> 0 ]

\* tensordict = env.reset()
LoopReset ==
    /\ vecenv.env.counter < MaxLoopCounter
    /\ LET r == vec_reset(vecenv.env)
       IN  vecenv' = [ env |-> r.env, op |-> "reset", td |-> step_tensordict(r.out.td),
                       action |-> None, out |-> r.out, steps |-> 0 ]
    /\ pc' = "reset"
    /\ UNCHANGED helperVars
    /\ UNCHANGED <<dreamer, decode, serial, seeding, stats>>

\* tensordict = env.step(policy(tensordict))
LoopStep ==
    /\ pc \in {"reset", "stepped"}
    /\ vecenv.out.kind = "return"
    /\ vecenv.steps < MaxLoopSteps
    /\ LET action == DiscreteActionVecPolicy(vecenv.td)
           r == discrete_step(vecenv.env, [observation_orig |-> vecenv.td.observation_orig,
                                           action |-> action])
       IN  vecenv' = [ env |-> r.env, op |-> "step",
                       td |-> IF r.out.kind = "return" THEN step_tensordict(r.out.td)
                              ELSE vecenv.td,
                       action |-> action, out |-> r.out, steps |-> vecenv.steps + 1 ]
    /\ pc' = "stepped"
    /\ UNCHANGED helperVars
    /\ UNCHANGED <<dreamer, decode, serial, seeding, stats>>

NextLoop == LoopReset \/ LoopStep

SpecLoop == InitLoop /\ [][NextLoop]_vars

\* C21: n steps after a reset at counter c the components, in units of
\* 1 / maxstep, are maxstep * c + n div 7, plus 1 for the first n mod 7 of them:
\* the n-th step added one unit to the component of 0-based index (n - 1) mod 7
\* and to no other, any two components differ by at most one unit, and they are
\* all equal whenever n is a multiple of 7.
C21_RoundRobin ==
    pc \in {"reset", "stepped"} =>
        LET n == vecenv.steps
            obs == vecenv.td.observation
            base == 100 * vecenv.env.counter + (n \div 7)
        IN  /\ vecenv.out.kind = "return"
            /\ vecenv.td.observation_orig = obs
            /\ Len(obs) = 7
            /\ \A i \in 1..7 : obs[i] = base + (IF i <= n % 7 THEN 1 ELSE 0)
            /\ \A i \in 1..7 : \A j \in 1..7 : obs[i] - obs[j] \in {-1, 0, 1}
            /\ n % 7 = 0 => \A i \in 1..7 : obs[i] = obs[1]
            /\ n >= 1 =>
                  /\ \A i \in 1..7 :
                        vecenv.action[i] = (IF i - 1 = (n - 1) % 7 THEN 1 ELSE 0)
                  /\ vecenv.out.td.done = FALSE

\* two full rounds after a reset: all components two units above the counter,
\* the last step having raised the component of index 6
C21_Witness ==
    /\ pc = "stepped"
    /\ vecenv.steps = 14
    /\ vecenv.env.counter = 2
    /\ \A i \in 1..7 : vecenv.td.observation[i] = 202
    /\ vecenv.action = << 0, 0, 0, 0, 0, 0, 1 >>

====
